---------------------------- MODULE Spec2Model ----------------------------
(***************************************************************************)
(* Training Management System (src/main.py): the SQLite store with its     *)
(* UNIQUE constraints, the Validator, and the Student, Course, Enrollment  *)
(* and Certification managers.                                             *)
(*                                                                         *)
(* A table is the sequence of its rows; the AUTOINCREMENT id of a row is   *)
(* its position (no operation deletes a row).  Text that is validated      *)
(* character by character (email, phone, cpf) is a sequence of one-        *)
(* character strings; an absent value (None) is the empty sequence.        *)
(* Progress is a number; the model uses integers.  Columns that hold only  *)
(* wall-clock timestamps or free text (dates, notes, description) are not  *)
(* part of the rows; now is the second the clock showed when it was last   *)
(* read for a certificate number.  sqlite3 leaves foreign keys unenforced  *)
(* unless PRAGMA foreign_keys is set, and get_connection never sets it.    *)
(*                                                                         *)
(* fault is the number of the execute_query call of the last operation     *)
(* in which sqlite3 raised an error other than a constraint violation      *)
(* (0: none did), failures the number of statements that failed so far.    *)
(* writer holds, for each process that has the database file open, how     *)
(* far it is into enroll_student.                                          *)
(***************************************************************************)
EXTENDS Integers, Sequences, FiniteSets, TLC

VARIABLES students, courses, enrollments, certifications, activity_logs,
          now, last, fault, failures, writer

vars == <<students, courses, enrollments, certifications, activity_logs,
          now, last, fault, failures, writer>>

tables == <<students, courses, enrollments, certifications, activity_logs>>

(***************************************************************************)
(* Bounds of the model.                                                    *)
(***************************************************************************)
MaxLog == 5     \* audit-log entries written in one run
MaxTime == 1    \* latest second the clock shows
MaxFailures == 1    \* statements the store fails in one run

\* the ids a caller passes for a table: every row's id and one that is missing
Ids(table) == 1 .. Len(table) + 1

(***************************************************************************)
(* Characters                                                              *)
(***************************************************************************)
Lower == {"a","b","c","d","e","f","g","h","i","j","k","l","m",
          "n","o","p","q","r","s","t","u","v","w","x","y","z"}
Upper == {"A","B","C","D","E","F","G","H","I","J","K","L","M",
          "N","O","P","Q","R","S","T","U","V","W","X","Y","Z"}
Letters == Lower \cup Upper
Digits == {"0","1","2","3","4","5","6","7","8","9"}
Whitespace == {" "}

DigitVal(c) ==
    CASE c = "0" -> 0 [] c = "1" -> 1 [] c = "2" -> 2 [] c = "3" -> 3
      [] c = "4" -> 4 [] c = "5" -> 5 [] c = "6" -> 6 [] c = "7" -> 7
      [] c = "8" -> 8 [] c = "9" -> 9

RECURSIVE SumTo(_, _)
SumTo(f, n) == IF n = 0 THEN 0 ELSE f[n] + SumTo(f, n - 1)

\* str.strip()
RECURSIVE strip(_)
strip(s) ==
    IF s = <<>> THEN s
    ELSE IF Head(s) \in Whitespace THEN strip(Tail(s))
    ELSE IF s[Len(s)] \in Whitespace THEN strip(SubSeq(s, 1, Len(s) - 1))
    ELSE s

\* re.sub(r'[^0-9]', '', s)
OnlyDigits(s) == SelectSeq(s, LAMBDA c : c \in Digits)

(***************************************************************************)
(* Validator                                                               *)
(***************************************************************************)
LocalChars == Letters \cup Digits \cup {".", "_", "%", "+", "-"}
DomainChars == Letters \cup Digits \cup {".", "-"}

AllIn(s, lo, hi, chars) == \A k \in lo .. hi : s[k] \in chars

\* ^[a-zA-Z0-9._%+-]+@[a-zA-Z0-9.-]+\.[a-zA-Z]{2,}$ on email.strip()
validate_email(email) ==
    LET s == strip(email)
        n == Len(s)
    IN  \E i \in 1 .. n : \E j \in 1 .. n :
           /\ s[i] = "@"
           /\ i > 1
           /\ AllIn(s, 1, i - 1, LocalChars)
           /\ s[j] = "."
           /\ j > i + 1
           /\ AllIn(s, i + 1, j - 1, DomainChars)
           /\ n - j >= 2
           /\ AllIn(s, j + 1, n, Letters)

validate_phone(phone) == Len(OnlyDigits(phone)) \in {10, 11}

validate_cpf(cpf) ==
    LET d == OnlyDigits(cpf)
        v == [k \in 1 .. Len(d) |-> DigitVal(d[k])]
        \* python index i = k - 1: weight 10 - i, then 11 - i
        w1 == [k \in 1 .. 9 |-> v[k] * (11 - k)]
        w2 == [k \in 1 .. 10 |-> v[k] * (12 - k)]
        digit1 == ((SumTo(w1, 9) * 10) % 11) % 10
        digit2 == ((SumTo(w2, 10) * 10) % 11) % 10
    IN  IF Len(d) # 11 \/ (\A k \in 1 .. 11 : d[k] = d[1]) THEN FALSE
        ELSE IF v[10] # digit1 THEN FALSE
        ELSE v[11] = digit2

\* variant: the upper limit is not checked
validate_progress_NoUpperLimit(progress) == 0 <= progress

\* variant: the lower limit is not checked
validate_progress_NoLowerLimit(progress) == progress <= 100

validate_progress(progress) == 0 <= progress /\ progress <= 100

(***************************************************************************)
(* Inputs the callers supply                                               *)
(***************************************************************************)
EmailA == <<"a", "@", "b", ".", "c", "o">>
EmailB == <<" ", "b", "_", "1", "@", "x", "-", "y", ".", "o", "r", "g">>
EmailNoAt == <<"a", "b", ".", "c", "o">>
EmailShortTld == <<"a", "@", "b", ".", "c">>

PhoneOk == <<"(", "1", "1", ")", "9", "8", "7", "6", "5", "4", "3", "2", "1">>
PhoneShort == <<"1", "2", "3">>

CpfOk == <<"5", "2", "9", ".", "9", "8", "2", ".", "2", "4", "7", "-", "2", "5">>
CpfBadCheck == <<"5", "2", "9", "9", "8", "2", "2", "4", "7", "3", "5">>
CpfSame == <<"1", "1", "1", "1", "1", "1", "1", "1", "1", "1", "1">>

NoText == <<>>

StudentInputs ==
    { [name |-> "Ana", email |-> EmailA, phone |-> NoText, cpf |-> NoText,
       status |-> "active"],
      [name |-> "Bob", email |-> EmailB, phone |-> PhoneOk, cpf |-> CpfOk,
       status |-> "active"],
      [name |-> "Eve", email |-> EmailNoAt, phone |-> NoText, cpf |-> NoText,
       status |-> "active"],
      [name |-> "Eve", email |-> EmailShortTld, phone |-> PhoneShort,
       cpf |-> NoText, status |-> "active"],
      [name |-> "Eve", email |-> EmailA, phone |-> PhoneShort, cpf |-> NoText,
       status |-> "active"],
      [name |-> "Eve", email |-> EmailA, phone |-> PhoneOk, cpf |-> CpfBadCheck,
       status |-> "active"],
      [name |-> "Eve", email |-> EmailA, phone |-> NoText, cpf |-> CpfSame,
       status |-> "active"] }

\* keyword arguments of update_student, as a sequence of alternatives
StudentUpdates ==
    << [email |-> EmailNoAt, phone |-> PhoneShort, cpf |-> CpfBadCheck],
       [id |-> 9] >>

CourseInputs ==
    { [title |-> "Python", duration_hours |-> 40, max_students |-> 1,
       price |-> 0],
      [title |-> "Design", duration_hours |-> 8, max_students |-> 2,
       price |-> 100],
      [title |-> "Python", duration_hours |-> 0, max_students |-> 1,
       price |-> 0],
      [title |-> "Design", duration_hours |-> 8, max_students |-> 2,
       price |-> -1] }

\* keyword arguments of update_course, as a sequence of alternatives
CourseUpdates ==
    << [max_students |-> 0],
       [id |-> 9] >>

Progresses == {-1, 0, 50, 100, 101}

\* values secrets.token_hex(8).upper() can return
Codes == {"00FF00FF00FF00FF", "A1B2C3D4E5F60718"}

(***************************************************************************)
(* The store: schema constraints of initialize_database, and               *)
(* execute_query, which turns a constraint violation into "no cursor"      *)
(***************************************************************************)
Rows(table) == 1 .. Len(table)

\* students: email TEXT UNIQUE NOT NULL, cpf TEXT UNIQUE (NULLs distinct)
students_unique(row, except) ==
    \A k \in Rows(students) \ {except} :
        /\ students[k].email # row.email
        /\ row.cpf = NoText \/ students[k].cpf # row.cpf

\* courses: title TEXT NOT NULL UNIQUE
courses_unique(row, except) ==
    \A k \in Rows(courses) \ {except} : courses[k].title # row.title

\* variant: the pair is unique among the rows that are not completed
enrollments_unique_ActiveOnly(row) ==
    \A k \in Rows(enrollments) :
        ~(/\ enrollments[k].student_id = row.student_id
          /\ enrollments[k].course_id = row.course_id
          /\ enrollments[k].status # "completed")

\* enrollments: UNIQUE(student_id, course_id)
enrollments_unique(row) ==
    \A k \in Rows(enrollments) :
        ~(/\ enrollments[k].student_id = row.student_id
          /\ enrollments[k].course_id = row.course_id)

\* variant: verification_code is not declared UNIQUE
certifications_unique_NumberOnly(row) ==
    \A k \in Rows(certifications) :
        certifications[k].certificate_number # row.certificate_number

\* certifications: certificate_number TEXT UNIQUE, verification_code TEXT UNIQUE
certifications_unique(row) ==
    \A k \in Rows(certifications) :
        /\ certifications[k].certificate_number # row.certificate_number
        /\ certifications[k].verification_code # row.verification_code

\* UPDATE ... SET k = ? for the keyword arguments that are columns of the row
ApplyUpdates(row, updates) ==
    [f \in DOMAIN row |-> IF f \in DOMAIN updates THEN updates[f] ELSE row[f]]

\* {k: v for k, v in kwargs.items() if k in allowed_fields}
FilterFields(kwargs, allowed) ==
    [f \in (DOMAIN kwargs) \cap allowed |-> kwargs[f]]

\* variant: user_type and action bound to each other's column
LogEntry_ColumnsSwapped(user_type, user_id, action, details) ==
    [user_type |-> action, user_id |-> user_id, action |-> user_type,
     details |-> details]

\* the row log_activity inserts
LogEntry(user_type, user_id, action, details) ==
    [user_type |-> user_type, user_id |-> user_id, action |-> action,
     details |-> details]

\* the operation that ran last, its integer arguments and what it returned:
\* ok is "returned an id / a certificate number / True"
Ret(op, a, b, ok) == [op |-> op, a |-> a, b |-> b, ok |-> ok]

\* the processes that have the database file open
Writers == {1, 2}

\* a process that is not inside enroll_student
Idle == [pc |-> "idle", student_id |-> 0, course_id |-> 0, available_seats |-> 0]

Init ==
    /\ students = <<>>
    /\ courses = <<>>
    /\ enrollments = <<>>
    /\ certifications = <<>>
    /\ activity_logs = <<>>
    /\ now = 0
    /\ last = Ret("init", 0, 0, TRUE)
    /\ fault = 0
    /\ failures = 0
    /\ writer = [w \in Writers |-> Idle]

(***************************************************************************)
(* StudentManager                                                          *)
(***************************************************************************)
StudentAllowedFields ==
    {"name", "email", "phone", "cpf", "birth_date", "status", "notes"}

add_student(student) ==
    /\ Len(activity_logs) < MaxLog
    /\ UNCHANGED <<courses, enrollments, certifications, now>>
    /\ IF ~validate_email(student.email)
          THEN /\ last' = Ret("add_student", 0, 0, FALSE)
               /\ UNCHANGED <<students, activity_logs>>
       ELSE IF student.phone # NoText /\ ~validate_phone(student.phone)
          THEN /\ last' = Ret("add_student", 0, 0, FALSE)
               /\ UNCHANGED <<students, activity_logs>>
       ELSE IF student.cpf # NoText /\ ~validate_cpf(student.cpf)
          THEN /\ last' = Ret("add_student", 0, 0, FALSE)
               /\ UNCHANGED <<students, activity_logs>>
       ELSE IF students_unique(student, 0)
          THEN /\ students' = Append(students, student)
               /\ activity_logs' = Append(activity_logs,
                      LogEntry("student", Len(students) + 1, "CREATED",
                               <<"registered", student.name>>))
               /\ last' = Ret("add_student", Len(students) + 1, 0, TRUE)
       ELSE /\ last' = Ret("add_student", 0, 0, FALSE)
            /\ UNCHANGED <<students, activity_logs>>

update_student(student_id, kwargs) ==
    LET updates == FilterFields(kwargs, StudentAllowedFields)
        exists == student_id \in Rows(students)
        row == ApplyUpdates(students[student_id], updates)
    IN  /\ Len(activity_logs) < MaxLog
        /\ UNCHANGED <<courses, enrollments, certifications, now>>
        /\ IF DOMAIN updates = {}
              THEN /\ last' = Ret("update_student", student_id, 0, FALSE)
                   /\ UNCHANGED <<students, activity_logs>>
           ELSE IF exists /\ students_unique(row, student_id)
              THEN /\ students' = [students EXCEPT ![student_id] = row]
                   /\ activity_logs' = Append(activity_logs,
                          LogEntry("student", student_id, "UPDATED",
                                   <<"fields", DOMAIN updates>>))
                   /\ last' = Ret("update_student", student_id, 0, TRUE)
           ELSE /\ last' = Ret("update_student", student_id, 0, FALSE)
                /\ UNCHANGED <<students, activity_logs>>

(***************************************************************************)
(* CourseManager                                                           *)
(***************************************************************************)
CourseAllowedFields ==
    {"title", "description", "duration_hours", "category", "instructor",
     "prerequisites", "max_students", "price", "is_active"}

add_course(course) ==
    /\ Len(activity_logs) < MaxLog
    /\ UNCHANGED <<students, enrollments, certifications, now>>
    /\ IF course.duration_hours <= 0
          THEN /\ last' = Ret("add_course", 0, 0, FALSE)
               /\ UNCHANGED <<courses, activity_logs>>
       ELSE IF course.price < 0
          THEN /\ last' = Ret("add_course", 0, 0, FALSE)
               /\ UNCHANGED <<courses, activity_logs>>
       ELSE IF courses_unique(course, 0)
          THEN /\ courses' = Append(courses, course)
               /\ activity_logs' = Append(activity_logs,
                      LogEntry("course", Len(courses) + 1, "CREATED",
                               <<"created", course.title>>))
               /\ last' = Ret("add_course", Len(courses) + 1, 0, TRUE)
       ELSE /\ last' = Ret("add_course", 0, 0, FALSE)
            /\ UNCHANGED <<courses, activity_logs>>

update_course(course_id, kwargs) ==
    LET updates == FilterFields(kwargs, CourseAllowedFields)
        exists == course_id \in Rows(courses)
        row == ApplyUpdates(courses[course_id], updates)
    IN  /\ Len(activity_logs) < MaxLog
        /\ UNCHANGED <<students, enrollments, certifications, now>>
        /\ IF DOMAIN updates = {}
              THEN /\ last' = Ret("update_course", course_id, 0, FALSE)
                   /\ UNCHANGED <<courses, activity_logs>>
           ELSE IF exists /\ courses_unique(row, course_id)
              THEN /\ courses' = [courses EXCEPT ![course_id] = row]
                   /\ activity_logs' = Append(activity_logs,
                          LogEntry("course", course_id, "UPDATED",
                                   <<"fields", DOMAIN updates>>))
                   /\ last' = Ret("update_course", course_id, 0, TRUE)
           ELSE /\ last' = Ret("update_course", course_id, 0, FALSE)
                /\ UNCHANGED <<courses, activity_logs>>

\* get_course(course_id) returns a row
CourseFound(course_id) == course_id \in Rows(courses)

\* SELECT COUNT(*) ... WHERE course_id = ? AND status IN ('enrolled', 'in_progress')
ActiveCount(course_id) ==
    Cardinality({k \in Rows(enrollments) :
                    /\ enrollments[k].course_id = course_id
                    /\ enrollments[k].status \in {"enrolled", "in_progress"}})

get_available_seats(course_id) ==
    IF ~CourseFound(course_id) THEN 0
    ELSE LET free == courses[course_id].max_students - ActiveCount(course_id)
         IN  IF free > 0 THEN free ELSE 0

(***************************************************************************)
(* EnrollmentManager                                                       *)
(***************************************************************************)
\* variant: if available_seats < 0
NoSeats_Negative(available_seats) == available_seats < 0

\* if available_seats <= 0: return None
NoSeats(available_seats) == available_seats <= 0

\* Enrollment(student_id, course_id, status=ENROLLED); progress REAL DEFAULT 0.0
NewEnrollment(student_id, course_id) ==
    [student_id |-> student_id, course_id |-> course_id, progress |-> 0,
     status |-> "enrolled"]

enroll_student(student_id, course_id) ==
    LET row == NewEnrollment(student_id, course_id)
        enrollment_id == Len(enrollments) + 1
    IN  /\ Len(activity_logs) < MaxLog
        /\ UNCHANGED <<students, courses, certifications, now>>
        /\ IF NoSeats(get_available_seats(course_id))
              THEN /\ last' = Ret("enroll_student", student_id, course_id, FALSE)
                   /\ UNCHANGED <<enrollments, activity_logs>>
           ELSE IF enrollments_unique(row)
              THEN /\ enrollments' = Append(enrollments, row)
                   /\ activity_logs' = Append(activity_logs,
                          LogEntry("enrollment", enrollment_id, "CREATED",
                                   <<"enrolled", student_id, course_id>>))
                   /\ last' = Ret("enroll_student", student_id, course_id, TRUE)
           ELSE /\ last' = Ret("enroll_student", student_id, course_id, FALSE)
                /\ UNCHANGED <<enrollments, activity_logs>>

\* variant: if progress > 100
StatusFor_Above100(progress) ==
    IF progress > 100 THEN "completed" ELSE "in_progress"

\* status = IN_PROGRESS; if progress >= 100: status = COMPLETED
StatusFor(progress) == IF progress >= 100 THEN "completed" ELSE "in_progress"

update_progress(enrollment_id, progress) ==
    /\ Len(activity_logs) < MaxLog
    /\ UNCHANGED <<students, courses, certifications, now>>
    /\ IF ~validate_progress(progress)
          THEN /\ last' = Ret("update_progress", enrollment_id, progress, FALSE)
               /\ UNCHANGED <<enrollments, activity_logs>>
       ELSE IF enrollment_id \in Rows(enrollments)
          THEN /\ enrollments' =
                      [enrollments EXCEPT ![enrollment_id].progress = progress,
                                          ![enrollment_id].status =
                                              StatusFor(progress)]
               /\ activity_logs' = Append(activity_logs,
                      LogEntry("enrollment", enrollment_id, "PROGRESS_UPDATED",
                               <<"progress", progress>>))
               /\ last' = Ret("update_progress", enrollment_id, progress, TRUE)
       ELSE /\ last' = Ret("update_progress", enrollment_id, progress, FALSE)
            /\ UNCHANGED <<enrollments, activity_logs>>

(***************************************************************************)
(* CertificationManager                                                    *)
(***************************************************************************)
\* variant: SELECT * FROM enrollments WHERE id = ?
CompletedEnrollment_AnyStatus(enrollment_id) ==
    enrollment_id \in Rows(enrollments)

\* SELECT * FROM enrollments WHERE id = ? AND status = 'completed' finds a row
CompletedEnrollment(enrollment_id) ==
    /\ enrollment_id \in Rows(enrollments)
    /\ enrollments[enrollment_id].status = "completed"

\* f"CERT-{enrollment_id}-{timestamp}", timestamp to the second
CertNumber(enrollment_id, timestamp) == <<"CERT", enrollment_id, timestamp>>

generate_certificate(enrollment_id, timestamp, verify_code) ==
    LET cert_number == CertNumber(enrollment_id, timestamp)
        row == [enrollment_id |-> enrollment_id,
                certificate_number |-> cert_number,
                verification_code |-> verify_code]
        cert_id == Len(certifications) + 1
    IN  /\ Len(activity_logs) < MaxLog
        /\ UNCHANGED <<students, courses, enrollments>>
        /\ IF ~CompletedEnrollment(enrollment_id)
              THEN /\ last' = Ret("generate_certificate", enrollment_id, 0, FALSE)
                   /\ UNCHANGED <<certifications, activity_logs, now>>
           ELSE IF certifications_unique(row)
              THEN /\ now' = timestamp
                   /\ certifications' = Append(certifications, row)
                   /\ activity_logs' = Append(activity_logs,
                          LogEntry("certification", cert_id, "ISSUED",
                                   <<"issued", cert_number, enrollment_id>>))
                   /\ last' = Ret("generate_certificate", enrollment_id,
                                  cert_id, TRUE)
           ELSE /\ now' = timestamp
                /\ last' = Ret("generate_certificate", enrollment_id, 0, FALSE)
                /\ UNCHANGED <<certifications, activity_logs>>

\* the rows of certifications JOIN enrollments JOIN students JOIN courses
\* WHERE cert.verification_code = ?
VerifyRows(verification_code) ==
    {k \in Rows(certifications) :
        /\ certifications[k].verification_code = verification_code
        /\ certifications[k].enrollment_id \in Rows(enrollments)
        /\ enrollments[certifications[k].enrollment_id].student_id
              \in Rows(students)
        /\ enrollments[certifications[k].enrollment_id].course_id
              \in Rows(courses)}

\* fetch_one: the first row of the join, or None
verify_certificate(verification_code) ==
    LET found == VerifyRows(verification_code)
        k == CHOOSE c \in found : \A d \in found : c <= d
        e == enrollments[certifications[k].enrollment_id]
    IN  IF found = {} THEN [found |-> FALSE]
        ELSE [found |-> TRUE,
              id |-> k,
              enrollment_id |-> certifications[k].enrollment_id,
              certificate_number |-> certifications[k].certificate_number,
              verification_code |-> certifications[k].verification_code,
              student_name |-> students[e.student_id].name,
              course_title |-> courses[e.course_id].title]

\* what datetime.now() can return, to the second: the clock never goes back
ClockReads == now .. MaxTime

\* A whole operation, run by one process with the store answering
AddStudent ==
    \E student \in StudentInputs :
        add_student(student) /\ fault' = 0 /\ UNCHANGED <<failures, writer>>
UpdateStudent ==
    \E student_id \in Ids(students) : \E i \in DOMAIN StudentUpdates :
        /\ update_student(student_id, StudentUpdates[i])
        /\ fault' = 0 /\ UNCHANGED <<failures, writer>>
AddCourse ==
    \E course \in CourseInputs :
        add_course(course) /\ fault' = 0 /\ UNCHANGED <<failures, writer>>
UpdateCourse ==
    \E course_id \in Ids(courses) : \E i \in DOMAIN CourseUpdates :
        /\ update_course(course_id, CourseUpdates[i])
        /\ fault' = 0 /\ UNCHANGED <<failures, writer>>
EnrollStudent ==
    \E student_id \in Ids(students) : \E course_id \in Ids(courses) :
        /\ enroll_student(student_id, course_id)
        /\ fault' = 0 /\ UNCHANGED <<failures, writer>>
UpdateProgress ==
    \E enrollment_id \in Ids(enrollments) : \E progress \in Progresses :
        /\ update_progress(enrollment_id, progress)
        /\ fault' = 0 /\ UNCHANGED <<failures, writer>>
GenerateCertificate ==
    \E enrollment_id \in Ids(enrollments) : \E timestamp \in ClockReads :
        \E verify_code \in Codes :
            /\ generate_certificate(enrollment_id, timestamp, verify_code)
            /\ fault' = 0 /\ UNCHANGED <<failures, writer>>

Next ==
    \/ AddStudent
    \/ UpdateStudent
    \/ AddCourse
    \/ UpdateCourse
    \/ EnrollStudent
    \/ UpdateProgress
    \/ GenerateCertificate

Spec == Init /\ [][Next]_vars

(***************************************************************************)
(* Two processes on the same database file.  execute_query commits after   *)
(* every statement, so the seat queries of enroll_student and its INSERT   *)
(* are separate transactions and another process can run between them.     *)
(***************************************************************************)
\* enroll_student up to "if available_seats <= 0: return None"
enroll_check(w, student_id, course_id) ==
    LET available_seats == get_available_seats(course_id)
    IN  /\ writer[w].pc = "idle"
        /\ Len(activity_logs) < MaxLog
        /\ fault' = 0 /\ UNCHANGED failures
        /\ UNCHANGED <<tables, now>>
        /\ IF NoSeats(available_seats)
              THEN /\ last' = Ret("enroll_student", student_id, course_id, FALSE)
                   /\ UNCHANGED writer
              ELSE /\ writer' = [writer EXCEPT ![w] =
                          [pc |-> "insert", student_id |-> student_id,
                           course_id |-> course_id,
                           available_seats |-> available_seats]]
                   /\ UNCHANGED last

\* enroll_student from the INSERT to its return
enroll_insert(w) ==
    LET student_id == writer[w].student_id
        course_id == writer[w].course_id
        row == NewEnrollment(student_id, course_id)
        enrollment_id == Len(enrollments) + 1
    IN  /\ writer[w].pc = "insert"
        /\ Len(activity_logs) < MaxLog
        /\ fault' = 0 /\ UNCHANGED failures
        /\ writer' = [writer EXCEPT ![w] = Idle]
        /\ UNCHANGED <<students, courses, certifications, now>>
        /\ IF enrollments_unique(row)
              THEN /\ enrollments' = Append(enrollments, row)
                   /\ activity_logs' = Append(activity_logs,
                          LogEntry("enrollment", enrollment_id, "CREATED",
                                   <<"enrolled", student_id, course_id>>))
                   /\ last' = Ret("enroll_student", student_id, course_id, TRUE)
              ELSE /\ last' = Ret("enroll_student", student_id, course_id, FALSE)
                   /\ UNCHANGED <<enrollments, activity_logs>>

EnrollCheck ==
    \E w \in Writers : \E student_id \in Ids(students) :
        \E course_id \in Ids(courses) :
            enroll_check(w, student_id, course_id)
EnrollInsert == \E w \in Writers : enroll_insert(w)

NextConc ==
    \/ AddStudent
    \/ AddCourse
    \/ EnrollCheck
    \/ EnrollInsert

SpecConc == Init /\ [][NextConc]_vars

(***************************************************************************)
(* A store that can fail.  execute_query catches sqlite3.Error, prints it  *)
(* and returns None: the failed statement changes nothing and the manager  *)
(* goes on with what it got.  In each operation below the statement number *)
(* failed of the call raises and the others run; the guard says  *)
(* that the call gets as far as that statement.                            *)
(***************************************************************************)
\* statements of enroll_student: 1 SELECT of get_course, 2 SELECT COUNT(*),
\* 3 INSERT INTO enrollments, 4 INSERT INTO activity_logs
EnrollStatements == 1 .. 4

\* get_available_seats when its COUNT(*) fails: enrolled = 0
SeatsWithoutCount(course_id) ==
    IF courses[course_id].max_students > 0
       THEN courses[course_id].max_students ELSE 0

enroll_student_fault(student_id, course_id, failed) ==
    LET row == NewEnrollment(student_id, course_id)
        enrollment_id == Len(enrollments) + 1
        rejected == /\ last' = Ret("enroll_student", student_id, course_id, FALSE)
                    /\ UNCHANGED <<enrollments, activity_logs>>
    IN  /\ Len(activity_logs) < MaxLog
        /\ failures < MaxFailures
        /\ failures' = failures + 1
        /\ fault' = failed
        /\ UNCHANGED <<students, courses, certifications, now, writer>>
        /\ CASE failed = 1 -> rejected
             [] failed = 2 ->
                  /\ CourseFound(course_id)
                  /\ IF NoSeats(SeatsWithoutCount(course_id)) THEN rejected
                     ELSE IF enrollments_unique(row)
                        THEN /\ enrollments' = Append(enrollments, row)
                             /\ activity_logs' = Append(activity_logs,
                                    LogEntry("enrollment", enrollment_id,
                                             "CREATED",
                                             <<"enrolled", student_id,
                                               course_id>>))
                             /\ last' = Ret("enroll_student", student_id,
                                            course_id, TRUE)
                     ELSE rejected
             [] failed = 3 ->
                  /\ ~NoSeats(get_available_seats(course_id))
                  /\ rejected
             [] failed = 4 ->
                  /\ ~NoSeats(get_available_seats(course_id))
                  /\ enrollments_unique(row)
                  /\ enrollments' = Append(enrollments, row)
                  /\ UNCHANGED activity_logs
                  /\ last' = Ret("enroll_student", student_id, course_id, TRUE)

\* statements of update_progress: 1 UPDATE enrollments,
\* 2 INSERT INTO activity_logs
ProgressStatements == 1 .. 2

update_progress_fault(enrollment_id, progress, failed) ==
    /\ Len(activity_logs) < MaxLog
    /\ failures < MaxFailures
    /\ failures' = failures + 1
    /\ fault' = failed
    /\ UNCHANGED <<students, courses, certifications, now, writer>>
    /\ validate_progress(progress)
    /\ CASE failed = 1 ->
              /\ last' = Ret("update_progress", enrollment_id, progress, FALSE)
              /\ UNCHANGED <<enrollments, activity_logs>>
         [] failed = 2 ->
              /\ enrollment_id \in Rows(enrollments)
              /\ enrollments' =
                     [enrollments EXCEPT ![enrollment_id].progress = progress,
                                         ![enrollment_id].status =
                                             StatusFor(progress)]
              /\ UNCHANGED activity_logs
              /\ last' = Ret("update_progress", enrollment_id, progress, TRUE)

\* statements of generate_certificate: 1 SELECT of the completed enrollment,
\* 2 INSERT INTO certifications, 3 INSERT INTO activity_logs
CertificateStatements == 1 .. 3

generate_certificate_fault(enrollment_id, timestamp, verify_code, failed) ==
    LET cert_number == CertNumber(enrollment_id, timestamp)
        row == [enrollment_id |-> enrollment_id,
                certificate_number |-> cert_number,
                verification_code |-> verify_code]
        cert_id == Len(certifications) + 1
    IN  /\ Len(activity_logs) < MaxLog
        /\ failures < MaxFailures
        /\ failures' = failures + 1
        /\ fault' = failed
        /\ UNCHANGED <<students, courses, enrollments, writer>>
        /\ CASE failed = 1 ->
                  /\ last' = Ret("generate_certificate", enrollment_id, 0, FALSE)
                  /\ UNCHANGED <<certifications, activity_logs, now>>
             [] failed = 2 ->
                  /\ CompletedEnrollment(enrollment_id)
                  /\ now' = timestamp
                  /\ last' = Ret("generate_certificate", enrollment_id, 0, FALSE)
                  /\ UNCHANGED <<certifications, activity_logs>>
             [] failed = 3 ->
                  /\ CompletedEnrollment(enrollment_id)
                  /\ certifications_unique(row)
                  /\ now' = timestamp
                  /\ certifications' = Append(certifications, row)
                  /\ UNCHANGED activity_logs
                  /\ last' = Ret("generate_certificate", enrollment_id,
                                 cert_id, TRUE)

EnrollStudentFault ==
    \E student_id \in Ids(students) : \E course_id \in Ids(courses) :
        \E failed \in EnrollStatements :
            enroll_student_fault(student_id, course_id, failed)
UpdateProgressFault ==
    \E enrollment_id \in Ids(enrollments) : \E progress \in Progresses :
        \E failed \in ProgressStatements :
            update_progress_fault(enrollment_id, progress, failed)
GenerateCertificateFault ==
    \E enrollment_id \in Ids(enrollments) : \E timestamp \in ClockReads :
        \E verify_code \in Codes :
            \E failed \in CertificateStatements :
                generate_certificate_fault(enrollment_id, timestamp,
                                           verify_code, failed)

NextFault ==
    \/ AddCourse
    \/ EnrollStudent
    \/ UpdateProgress
    \/ GenerateCertificate
    \/ EnrollStudentFault
    \/ UpdateProgressFault
    \/ GenerateCertificateFault

SpecFault == Init /\ [][NextFault]_vars

(***************************************************************************)
(* Properties                                                              *)
(***************************************************************************)
IsActive(k) == enrollments[k].status \in {"enrolled", "in_progress"}

\* C1: for every course, the number of its enrollments whose status is
\* enrolled or in_progress is at most the course's max_students.
C1_ActiveWithinCapacity ==
    \A c \in Rows(courses) :
        Cardinality({k \in Rows(enrollments) :
                        enrollments[k].course_id = c /\ IsActive(k)})
            <= courses[c].max_students

\* C2: every certification row belongs to an enrollment whose current
\* status is completed.
C2_CertificateOnlyForCompleted ==
    \A k \in Rows(certifications) :
        /\ certifications[k].enrollment_id \in Rows(enrollments)
        /\ enrollments[certifications[k].enrollment_id].status = "completed"

\* C3: enroll_student for a course with 0 available seats (full, or not in
\* the store) fails and leaves enrollments and the audit log as they were.
C3_NoSeatsEnrollFails ==
    [][(/\ last'.op = "enroll_student"
        /\ enroll_student(last'.a, last'.b)
        /\ get_available_seats(last'.b) = 0)
          => (/\ ~last'.ok
              /\ enrollments' = enrollments
              /\ activity_logs' = activity_logs)]_vars

\* a full, existing course has just turned an enrollment away
C3_Witness ==
    /\ last.op = "enroll_student"
    /\ ~last.ok
    /\ CourseFound(last.b)
    /\ courses[last.b].max_students > 0
    /\ get_available_seats(last.b) = 0

PairExists(student_id, course_id) ==
    \E k \in Rows(enrollments) :
        /\ enrollments[k].student_id = student_id
        /\ enrollments[k].course_id = course_id

\* C4: no two enrollment rows share (student_id, course_id); enroll_student
\* for a pair that already has a row, whatever its status, fails and adds
\* neither an enrollment row nor an audit-log entry.
C4_UniquePair ==
    /\ [](\A j \in Rows(enrollments) : \A k \in Rows(enrollments) :
            (/\ enrollments[j].student_id = enrollments[k].student_id
             /\ enrollments[j].course_id = enrollments[k].course_id)
            => j = k)
    /\ [][(/\ last'.op = "enroll_student"
          /\ enroll_student(last'.a, last'.b)
          /\ PairExists(last'.a, last'.b))
            => (/\ ~last'.ok
                /\ enrollments' = enrollments
                /\ activity_logs' = activity_logs)]_vars

\* a pair whose row is completed was refused although the course had a seat
C4_Witness ==
    /\ last.op = "enroll_student"
    /\ ~last.ok
    /\ get_available_seats(last.b) > 0
    /\ \E k \in Rows(enrollments) :
          /\ enrollments[k].student_id = last.a
          /\ enrollments[k].course_id = last.b
          /\ enrollments[k].status = "completed"

\* C5: for an existing enrollment and 0 <= p <= 100, update_progress stores
\* p and sets the status from p alone: in_progress if 0 < p < 100,
\* completed if p >= 100.
C5_ProgressStoredStatusDerived ==
    [][(/\ last'.op = "update_progress"
        /\ update_progress(last'.a, last'.b)
        /\ last'.a \in Rows(enrollments)
        /\ 0 <= last'.b
        /\ last'.b <= 100)
          => LET p == last'.b
                 after == enrollments'[last'.a]
             IN  /\ last'.ok
                 /\ after.progress = p
                 /\ (0 < p /\ p < 100) => after.status = "in_progress"
                 /\ p >= 100 => after.status = "completed"]_vars

\* an enrollment that holds a certificate (it was completed) is back to
\* in_progress after update_progress(.., 50)
C5_Witness ==
    /\ last.op = "update_progress"
    /\ last.ok
    /\ last.b = 50
    /\ enrollments[last.a].progress = 50
    /\ enrollments[last.a].status = "in_progress"
    /\ \E k \in Rows(certifications) : certifications[k].enrollment_id = last.a

\* C6: update_progress with a progress below 0 or above 100 fails and
\* leaves every enrollment and the audit log unchanged.
C6_OutOfRangeRejected ==
    [][(/\ last'.op = "update_progress"
        /\ update_progress(last'.a, last'.b)
        /\ (last'.b < 0 \/ last'.b > 100))
          => (/\ ~last'.ok
              /\ enrollments' = enrollments
              /\ activity_logs' = activity_logs)]_vars

\* an existing enrollment was given an out-of-range progress
C6_Witness ==
    /\ last.op = "update_progress"
    /\ ~last.ok
    /\ last.a \in Rows(enrollments)
    /\ (last.b < 0 \/ last.b > 100)

\* C7: generate_certificate for an enrollment that is not completed, or
\* does not exist, fails and adds no certification row and no audit entry.
C7_NotCompletedNoCertificate ==
    [][(/\ last'.op = "generate_certificate"
        /\ \E timestamp \in ClockReads : \E verify_code \in Codes :
              generate_certificate(last'.a, timestamp, verify_code)
        /\ ~(/\ last'.a \in Rows(enrollments)
             /\ enrollments[last'.a].status = "completed"))
          => (/\ ~last'.ok
              /\ certifications' = certifications
              /\ activity_logs' = activity_logs)]_vars

\* an existing enrollment that is enrolled or in_progress was refused
C7_Witness ==
    /\ last.op = "generate_certificate"
    /\ ~last.ok
    /\ last.a \in Rows(enrollments)
    /\ IsActive(last.a)

\* C8: for a completed enrollment generate_certificate succeeds, and
\* verify_certificate with the code just issued returns that enrollment's
\* record with its student's name and its course's title.
C8_IssueThenVerify ==
    (/\ last.op = "generate_certificate"
     /\ last.a \in Rows(enrollments)
     /\ enrollments[last.a].status = "completed")
    => /\ last.ok
       /\ LET cert == certifications[last.b]
              e == enrollments[last.a]
              r == verify_certificate(cert.verification_code)
          IN  /\ r.found
              /\ r.enrollment_id = last.a
              /\ e.student_id \in Rows(students)
              /\ r.student_name = students[e.student_id].name
              /\ r.course_title = courses[e.course_id].title

\* C9: no two certification rows share a certificate_number or a
\* verification_code; a generate_certificate call whose number or code
\* already exists adds no row.
C9_UniqueCertificates ==
    /\ [](\A j \in Rows(certifications) : \A k \in Rows(certifications) :
            (\/ certifications[j].certificate_number
                  = certifications[k].certificate_number
             \/ certifications[j].verification_code
                  = certifications[k].verification_code)
            => j = k)
    /\ [][\A timestamp \in ClockReads : \A verify_code \in Codes :
            (/\ last'.op = "generate_certificate"
             /\ generate_certificate(last'.a, timestamp, verify_code)
             /\ \E k \in Rows(certifications) :
                   \/ certifications[k].certificate_number
                        = CertNumber(last'.a, timestamp)
                   \/ certifications[k].verification_code = verify_code)
            => (/\ ~last'.ok
                /\ certifications' = certifications)]_vars

\* a completed enrollment was refused a second certificate: its number or
\* its code was taken
C9_Witness ==
    /\ last.op = "generate_certificate"
    /\ ~last.ok
    /\ last.a \in Rows(enrollments)
    /\ enrollments[last.a].status = "completed"
    /\ Len(certifications) >= 1

\* C10: every stored student email satisfies validate_email, and every
\* stored phone and national ID satisfies validate_phone and validate_cpf.
C10_StoredIdentityValid ==
    \A k \in Rows(students) :
        /\ validate_email(students[k].email)
        /\ students[k].phone # NoText => validate_phone(students[k].phone)
        /\ students[k].cpf # NoText => validate_cpf(students[k].cpf)

\* the audit-log entry written last
LastEntry(log) == log[Len(log)]

C12_EnrollmentReferencesLive ==
    \A k \in Rows(enrollments) :
        /\ enrollments[k].student_id \in Rows(students)
        /\ enrollments[k].course_id \in Rows(courses)

\* enrolled < in_progress < completed
StatusRank(status) ==
    CASE status = "enrolled" -> 0
      [] status = "in_progress" -> 1
      [] status = "completed" -> 2

\* C15: a successful update_progress never moves an enrollment's status
\* backward in the order enrolled, in_progress, completed.
C15_StatusNeverBackward ==
    [][(/\ last'.op = "update_progress"
        /\ update_progress(last'.a, last'.b)
        /\ last'.ok)
          => StatusRank(enrollments'[last'.a].status)
               >= StatusRank(enrollments[last'.a].status)]_vars

\* C17: every enrollment is enrolled with progress 0, in_progress with
\* 0 <= progress < 100, or completed with progress 100.
C17_EnrollmentShapes ==
    \A k \in Rows(enrollments) :
        LET e == enrollments[k]
        IN  \/ e.status = "enrolled" /\ e.progress = 0
            \/ e.status = "in_progress" /\ 0 <= e.progress /\ e.progress < 100
            \/ e.status = "completed" /\ e.progress = 100

\* an enrollment that holds a certificate (it was completed at 100) is
\* in_progress with progress 0 after update_progress(.., 0)
C17_Witness ==
    /\ last.op = "update_progress"
    /\ last.ok
    /\ last.b = 0
    /\ enrollments[last.a].status = "in_progress"
    /\ enrollments[last.a].progress = 0
    /\ \E k \in Rows(certifications) : certifications[k].enrollment_id = last.a

\* C13: no enrollment for a course is admitted between a caller's seat check
\* and that caller's own insert, so the seats a caller saw are still free
\* when it inserts and no course is filled beyond its max_students.
C13_CheckAndInsertAreOneUnit ==
    /\ \A w \in Writers :
          writer[w].pc = "insert"
            => get_available_seats(writer[w].course_id)
                 = writer[w].available_seats
    /\ \A c \in Rows(courses) : ActiveCount(c) <= courses[c].max_students

\* the operations that write a data row and then an audit-log entry
LoggedOperations == {"enroll_student", "update_progress", "generate_certificate"}

\* C14: when a statement of enroll_student, update_progress or
\* generate_certificate fails, the call leaves every table as it was
\* before the call: no data row or update without its audit-log entry.
C14_FailureLeavesStoreAsBefore ==
    [][(fault' # 0 /\ last'.op \in LoggedOperations) => tables' = tables]_vars

\* the statements of an operation that write: the INSERT or UPDATE of the
\* data row and the INSERT into activity_logs
WriteStatements(op) ==
    CASE op = "enroll_student" -> {3, 4}
      [] op = "update_progress" -> {1, 2}
      [] op = "generate_certificate" -> {2, 3}
      [] OTHER -> {}

\* what the caller of the last operation received
Returned(l) ==
    IF l.op = "update_progress"
       THEN (IF l.ok THEN "True" ELSE "False")
       ELSE (IF l.ok THEN "value" ELSE "None")

\* what an operation returns for a business-rule rejection (no seats,
\* out-of-range progress, enrollment not completed) or when nothing happened
RejectionReturn(op) == IF op = "update_progress" THEN "False" ELSE "None"

\* what an operation returns when it has done its work
SuccessReturn(op) == IF op = "update_progress" THEN "True" ELSE "value"

\* C16: when a write of enroll_student, update_progress or
\* generate_certificate failed in the store, what the caller received is
\* neither the operation's rejection result nor its success result.
C16_WriteFailureIsDistinct ==
    (last.op \in LoggedOperations /\ fault \in WriteStatements(last.op))
        => Returned(last) \notin {RejectionReturn(last.op),
                                  SuccessReturn(last.op)}

=========================================================================
